---- MODULE Spec2Model ----
(***************************************************************************)
(* Model of the connector-icon pipelines:                                  *)
(*   download_connector_svgs.py  (the fetcher)                             *)
(*   rename_connector_svgs.py    (the namer)                               *)
(*                                                                         *)
(* A Python string is a sequence of code points.  An ASCII code point is   *)
(* written as the one-character string itself, any other code point as     *)
(* "U+XXXX".                                                               *)
(***************************************************************************)
EXTENDS Integers, Sequences, FiniteSets, TLC

\* ------------------------------------------------------------------------
\* Code points
\* ------------------------------------------------------------------------
LowerSeq ==
  <<"a","b","c","d","e","f","g","h","i","j","k","l","m",
    "n","o","p","q","r","s","t","u","v","w","x","y","z">>

UpperSeq ==
  <<"A","B","C","D","E","F","G","H","I","J","K","L","M",
    "N","O","P","Q","R","S","T","U","V","W","X","Y","Z">>

DigitSeq == <<"0","1","2","3","4","5","6","7","8","9">>

Range(s) == { s[i] : i \in DOMAIN s }

\* e-acute, u-acute, a-circumflex, euro sign, right double quote, em dash,
\* a CJK ideograph, the fi ligature, circled digit one, no-break space,
\* combining acute, combining circumflex
NonAscii ==
  { "U+00E9", "U+00FA", "U+00E2", "U+20AC", "U+201D", "U+2014",
    "U+4E2D", "U+FB01", "U+2460", "U+00A0", "U+0301", "U+0302" }

IsAscii(c) == c \notin NonAscii

\* [a-z0-9]
LowerAlnum == Range(LowerSeq) \cup Range(DigitSeq)

\* \d on a str pattern: the decimal digits (category Nd); the circled digit
\* U+2460 is category No and does not match
IsDigit(c) == c \in Range(DigitSeq)

\* \s on a str pattern, and what str.strip() removes
SpaceChars == { " ", "U+00A0" }

IsSpace(c) == c \in SpaceChars

\* str.lower(), one code point at a time
ToLowerChar(c) ==
  IF c \in Range(UpperSeq)
    THEN LowerSeq[CHOOSE i \in DOMAIN UpperSeq : UpperSeq[i] = c]
    ELSE c

Lower(s) == [ i \in DOMAIN s |-> ToLowerChar(s[i]) ]

\* unicodedata.normalize("NFKD", c) of one code point
NFKDChar(c) ==
  CASE c = "U+00E9" -> <<"e", "U+0301">>
    [] c = "U+00FA" -> <<"u", "U+0301">>
    [] c = "U+00E2" -> <<"a", "U+0302">>
    [] c = "U+FB01" -> <<"f", "i">>
    [] c = "U+2460" -> <<"1">>
    [] c = "U+00A0" -> <<" ">>
    [] OTHER -> <<c>>

RECURSIVE NFKD(_)
NFKD(s) == IF s = <<>> THEN <<>> ELSE NFKDChar(Head(s)) \o NFKD(Tail(s))

\* .encode("ascii", "ignore").decode("ascii")
AsciiIgnore(s) == SelectSeq(s, IsAscii)

\* ------------------------------------------------------------------------
\* String helpers
\* ------------------------------------------------------------------------
\* a class of code points: the members of S, or (negated) everything else
InClass(c, S, negated) == (c \in S) # negated

RECURSIVE LStrip(_, _, _)
LStrip(s, S, negated) ==
  IF s # <<>> /\ InClass(Head(s), S, negated)
    THEN LStrip(Tail(s), S, negated)
    ELSE s

RECURSIVE RStrip(_, _, _)
RStrip(s, S, negated) ==
  IF s # <<>> /\ InClass(s[Len(s)], S, negated)
    THEN RStrip(SubSeq(s, 1, Len(s) - 1), S, negated)
    ELSE s

\* str.strip() / str.strip(chars)
Strip(s, S) == RStrip(LStrip(s, S, FALSE), S, FALSE)

\* re.sub(r"[C]+", rep, s): every maximal run of code points of class C is
\* replaced by rep
RECURSIVE SubRuns(_, _, _, _)
SubRuns(s, S, negated, rep) ==
  IF s = <<>> THEN <<>>
  ELSE IF InClass(Head(s), S, negated)
    THEN rep \o SubRuns(LStrip(s, S, negated), S, negated, rep)
    ELSE <<Head(s)>> \o SubRuns(Tail(s), S, negated, rep)

\* phrase in s
Contains(s, phrase) ==
  \E i \in 0..(Len(s) - Len(phrase)) :
     SubSeq(s, i + 1, i + Len(phrase)) = phrase

\* Optional values (str | None)
None == [some |-> FALSE, val |-> <<>>]
Some(x) == [some |-> TRUE, val |-> x]

\* ------------------------------------------------------------------------
\* normalize_name
\* ------------------------------------------------------------------------
\* normalize_name without its final .strip("_")
normalize_name_no_strip(raw_name) ==
  LET n1 == NFKD(raw_name)
      n2 == AsciiIgnore(n1)
      n3 == Lower(n2)
      n4 == SubRuns(n3, LowerAlnum, TRUE, <<"_">>)
  IN  SubRuns(n4, {"_"}, FALSE, <<"_">>)

\* normalize_name with .strip("_") taken before the substitutions
normalize_name_strip_first(raw_name) ==
  LET n1 == NFKD(raw_name)
      n2 == AsciiIgnore(n1)
      n3 == Strip(Lower(n2), {"_"})
      n4 == SubRuns(n3, LowerAlnum, TRUE, <<"_">>)
  IN  SubRuns(n4, {"_"}, FALSE, <<"_">>)

normalize_name(raw_name) ==
  LET n1 == NFKD(raw_name)
      n2 == AsciiIgnore(n1)
      n3 == Lower(n2)
      n4 == SubRuns(n3, LowerAlnum, TRUE, <<"_">>)
      n5 == Strip(SubRuns(n4, {"_"}, FALSE, <<"_">>), {"_"})
  IN  n5

\* ------------------------------------------------------------------------
\* pick_name_from_titles
\* ------------------------------------------------------------------------
STOP_PHRASES ==
  { <<"p","l","u","g","g","y">>,
    <<"c","o","n","n","e","c","t","o","r">>,
    <<"c","o","n","n","e","c","t","o","r"," ","i","c","o","n","s">>,
    <<"c","o","n","n","e","c","t","o","r","-","i","c","o","n","s">>,
    <<"s","v","g">>,
    <<"i","c","o","n">>,
    <<"l","o","g","o">>,
    <<"v","e","c","t","o","r">>,
    <<"b","r","a","n","d">> }

\* the character class of the split pattern, as the file is encoded: hyphen,
\* pipe, colon and the three code points U+00E2 U+20AC U+201D
SplitClass == { "-", "|", ":", "U+00E2", "U+20AC", "U+201D" }

IsSplitAt(s, i) ==
  /\ i + 2 <= Len(s)
  /\ IsSpace(s[i])
  /\ s[i + 1] \in SplitClass
  /\ IsSpace(s[i + 2])

\* re.split(r"\s[...]\s", title)[0]
SplitHead(title) ==
  IF \E i \in 1..Len(title) : IsSplitAt(title, i)
    THEN LET k == CHOOSE i \in 1..Len(title) :
                    /\ IsSplitAt(title, i)
                    /\ \A j \in 1..(i - 1) : ~IsSplitAt(title, j)
         IN  SubSeq(title, 1, k - 1)
    ELSE title

CandidateOf(title) == Strip(SplitHead(title), SpaceChars)

MinCandidateLen == 3
MaxCandidateLen == 60

Rejected(candidate) ==
  \/ \E phrase \in STOP_PHRASES : Contains(Lower(candidate), phrase)
  \/ \E i \in DOMAIN candidate : IsDigit(candidate[i])
  \/ Len(candidate) < MinCandidateLen
  \/ Len(candidate) > MaxCandidateLen

RECURSIVE pick_name_from_titles(_)
pick_name_from_titles(titles) ==
  IF titles = <<>> THEN None
  ELSE IF Rejected(CandidateOf(Head(titles)))
    THEN pick_name_from_titles(Tail(titles))
    ELSE Some(CandidateOf(Head(titles)))

\* ------------------------------------------------------------------------
\* File names
\* ------------------------------------------------------------------------
\* str(n) of a non-negative integer
RECURSIVE ToDigits(_)
ToDigits(n) ==
  IF n < 10 THEN <<DigitSeq[n + 1]>>
  ELSE ToDigits(n \div 10) \o <<DigitSeq[(n % 10) + 1]>>

DigitValue(c) == (CHOOSE i \in DOMAIN DigitSeq : DigitSeq[i] = c) - 1

\* int(s) of a string of decimal digits
RECURSIVE ParseInt(_)
ParseInt(s) ==
  IF s = <<>> THEN 0
  ELSE 10 * ParseInt(SubSeq(s, 1, Len(s) - 1)) + DigitValue(s[Len(s)])

SvgExt == <<".", "s", "v", "g">>

\* f"{icon_id}.svg"
OutputName(n) == ToDigits(n) \o SvgExt

\* re.match(r"^\d+\.svg$", name)
MatchesNumericSvg(name) ==
  /\ Len(name) > Len(SvgExt)
  /\ SubSeq(name, Len(name) - Len(SvgExt) + 1, Len(name)) = SvgExt
  /\ \A i \in 1..(Len(name) - Len(SvgExt)) : IsDigit(name[i])

\* name.split(".")[0]
IconIdOf(name) ==
  IF \E i \in DOMAIN name : name[i] = "."
    THEN SubSeq(name, 1, (CHOOSE i \in DOMAIN name :
                            /\ name[i] = "."
                            /\ \A j \in 1..(i - 1) : name[j] # ".") - 1)
    ELSE name

\* the new name without the identifier: f"{institution}.svg"
NewName_without_identifier(icon, institution) == institution \o SvgExt

\* f"{icon_id}_{institution}.svg"
NewName(icon, institution) == icon \o <<"_">> \o institution \o SvgExt

\* sorted(svg_files, key=lambda name: int(name.split(".")[0]))
RECURSIVE SortedByIconId(_)
SortedByIconId(names) ==
  IF names = {} THEN <<>>
  ELSE LET first == CHOOSE n \in names :
                      \A m \in names :
                        ParseInt(IconIdOf(n)) <= ParseInt(IconIdOf(m))
       IN  <<first>> \o SortedByIconId(names \ {first})

\* ^[a-z0-9]+(_[a-z0-9]+)*$
MatchesSlugPattern(s) ==
  /\ s # <<>>
  /\ \A i \in DOMAIN s : s[i] \in LowerAlnum \cup {"_"}
  /\ s[1] # "_"
  /\ s[Len(s)] # "_"
  /\ \A i \in 1..(Len(s) - 1) : ~(s[i] = "_" /\ s[i + 1] = "_")

\* name is {identifier}_{slug}.svg for the decimal identifier n
IsRenamedNameOf(name, n) ==
  LET pre == ToDigits(n) \o <<"_">>
      slugLen == Len(name) - Len(pre) - Len(SvgExt)
  IN  /\ slugLen > 0
      /\ SubSeq(name, 1, Len(pre)) = pre
      /\ SubSeq(name, Len(name) - Len(SvgExt) + 1, Len(name)) = SvgExt
      /\ MatchesSlugPattern(SubSeq(name, Len(pre) + 1, Len(pre) + slugLen))

\* the directory d holds a renamed file of identifier n
HasRenamedFile(d, n) == \E name \in DOMAIN d : IsRenamedNameOf(name, n)

\* ------------------------------------------------------------------------
\* extract_hints
\* ------------------------------------------------------------------------
\* re.sub(r"\s+", " ", text).strip()
CollapseSpaces(text) ==
  Strip(SubRuns(text, SpaceChars, FALSE, <<" ">>), SpaceChars)

RECURSIVE CleanedNonEmpty(_)
CleanedNonEmpty(texts) ==
  IF texts = <<>> THEN <<>>
  ELSE LET cleaned == CollapseSpaces(Head(texts))
       IN  (IF cleaned # <<>> THEN <<cleaned>> ELSE <<>>)
             \o CleanedNonEmpty(Tail(texts))

IsTitleElement(e) == e.tag = "title"
IsDescElement(e) == e.tag = "desc"

TextsOf(elements) == [ i \in DOMAIN elements |-> elements[i].text ]

\* An SVG document is the sequence of its elements, [tag, text]; the <title>
\* matches come before the <desc> matches
extract_hints(svg_content) ==
  CleanedNonEmpty(TextsOf(SelectSeq(svg_content, IsTitleElement)))
    \o CleanedNonEmpty(TextsOf(SelectSeq(svg_content, IsDescElement)))

\* ------------------------------------------------------------------------
\* fetch_search_results
\* ------------------------------------------------------------------------
\* A result page is the sequence of the texts of its result__a anchors
fetch_search_results(page) == CleanedNonEmpty(page)

\* ------------------------------------------------------------------------
\* identify_institution: the query list
\* ------------------------------------------------------------------------
QueryPrefix == <<"p", "l", "u", "g", "g", "y", " ", "c", "o", "n", "n", "e", "c", "t", "o", "r", " ">>
QuerySuffix == <<" ", "s", "v", "g", " ", "b", "a", "n", "k">>
LogoSuffix == <<" ", "l", "o", "g", "o">>

\* the hint query put first
Queries_hint_first(icon, hintList) ==
  (IF hintList # <<>> THEN <<hintList[1] \o LogoSuffix>> ELSE <<>>)
    \o <<QueryPrefix \o icon \o QuerySuffix>>

Queries(icon, hintList) ==
  <<QueryPrefix \o icon \o QuerySuffix>>
    \o (IF hintList # <<>> THEN <<hintList[1] \o LogoSuffix>> ELSE <<>>)

\* ------------------------------------------------------------------------
\* The environment: the CDN and the search engine
\* ------------------------------------------------------------------------
FIRST_ID == 201

\* the CDN serves at most this many icons, FIRST_ID .. FIRST_ID + MaxIcons - 1
MaxIcons == 2

\* an icon without <title>/<desc>
BodyNoHints == << [tag |-> "path", text |-> <<>>] >>

\* <desc> logo </desc><title>Ita&uacute;</title>
BodyWithHints ==
  << [tag |-> "desc", text |-> <<" ", "l", "o", "g", "o", " ">>],
     [tag |-> "title", text |-> <<"I", "t", "a", "U+00FA">>] >>

CdnBodies == { BodyNoHints, BodyWithHints }

\* the identifiers the CDN serves
CdnIds == FIRST_ID .. (FIRST_ID + MaxIcons - 1)

\* what one GET of the CDN can produce when it holds the icons store
CdnResponses(store, n) ==
  { [kind |-> k, body |-> <<>>] : k \in {"http_error", "url_error", "status"} }
    \cup (IF n \in DOMAIN store
            THEN { [kind |-> "ok", body |-> store[n]] }
            ELSE {})

\* result pages of the search engine
PageEmpty == <<>>

\* "Nubank - Wiki", "Nu connector icon"
PageNubank ==
  << <<"N", "u", "b", "a", "n", "k", " ", "-", " ", "W", "i", "k", "i">>,
     <<"N", "u", " ", "c", "o", "n", "n", "e", "c", "t", "o", "r", " ", "i", "c", "o", "n">> >>

\* a blank anchor, then "Ita&uacute; | Home"
PageItau ==
  << <<" ", " ">>,
     <<"I", "t", "a", "U+00FA", " ", "|", " ", "H", "o", "m", "e">> >>

\* three ideographs: a candidate whose normalization is empty
PageIdeographs == << <<"U+4E2D", "U+4E2D", "U+4E2D">> >>

SearchPages == { PageEmpty, PageNubank, PageItau, PageIdeographs }

\* what one GET of the search engine can produce
SearchResponses ==
  { [kind |-> "page", page |-> p] : p \in SearchPages }
    \cup { [kind |-> "transport_failure", page |-> <<>>] }

\* ------------------------------------------------------------------------
\* State.  The two scripts are run one at a time, each run a fresh process:
\* a run starts with the other script's variables at their initial values.
\* ------------------------------------------------------------------------
VARIABLES
  cdn,         \* the icons the CDN holds: identifier |-> SVG document
  dirExists,   \* whether connector-icons/ exists
  dir,         \* connector-icons/: file name |-> content
  script,      \* the script of the current or last run, "none" before any
  pc,          \* position of the running script, "idle" between runs
  exitCode,    \* how the last run ended: "0", "1", "exception"; "none" before
  icon_id,     \* fetcher: main's icon_id
  fRequested,  \* fetcher: the identifiers requested by the run, in order
  fWritten,    \* fetcher: the file names written by the run
  refetched,   \* the identifiers the fetcher wrote {identifier}.svg for while
               \*   a renamed file of that identifier was in the directory
  svg_files,   \* namer: the files of the batch not yet reached
  filename,    \* namer: the file being processed
  hints,       \* namer: the hints extracted from it
  queries,     \* namer: identify_institution's query list
  qi,          \* namer: index of the next query
  issued,      \* namer: the queries issued for this file, with their outcome
  institution, \* namer: identify_institution's result
  report,      \* namer: the outcome printed for the last file
  pause,       \* namer: time units slept since the run's last search
               \*        request, -1 before its first
  gap,         \* namer: time units slept between the last two search
               \*        requests of the run, -1 when there were fewer
  raw_name,    \* normalize_name called on its own: the argument
  slug1,       \*   its result
  slug2,       \*   the result of normalizing the result
  titles,      \* pick_name_from_titles called on its own: the argument
  picked       \*   its result

fetcherVars == <<icon_id, fRequested, fWritten>>
namerVars == <<svg_files, filename, hints, queries, qi, issued, institution, report,
               pause, gap>>
callVars == <<raw_name, slug1, slug2, titles, picked>>
vars == <<cdn, dirExists, dir, script, pc, exitCode, refetched, fetcherVars,
          namerVars, callVars>>

FetcherInit ==
  /\ icon_id = FIRST_ID
  /\ fRequested = <<>>
  /\ fWritten = {}

NamerInit ==
  /\ svg_files = <<>>
  /\ filename = <<>>
  /\ hints = <<>>
  /\ queries = <<>>
  /\ qi = 1
  /\ issued = <<>>
  /\ institution = None
  /\ report = "none"
  /\ pause = -1
  /\ gap = -1

CallInit ==
  /\ raw_name = <<>>
  /\ slug1 = <<>>
  /\ slug2 = <<>>
  /\ titles = <<>>
  /\ picked = None

\* the variables of a script that is not running
FetcherFresh ==
  /\ icon_id' = FIRST_ID
  /\ fRequested' = <<>>
  /\ fWritten' = {}

NamerFresh ==
  /\ svg_files' = <<>>
  /\ filename' = <<>>
  /\ hints' = <<>>
  /\ queries' = <<>>
  /\ qi' = 1
  /\ issued' = <<>>
  /\ institution' = None
  /\ report' = "none"
  /\ pause' = -1
  /\ gap' = -1

\* a fresh checkout: no connector-icons/ directory yet
Init ==
  /\ cdn \in [CdnIds -> CdnBodies]
  /\ dirExists = FALSE
  /\ dir = << >>
  /\ script = "none"
  /\ pc = "idle"
  /\ exitCode = "none"
  /\ refetched = {}
  /\ FetcherInit
  /\ NamerInit
  /\ CallInit

\* ------------------------------------------------------------------------
\* download_connector_svgs.py
\* ------------------------------------------------------------------------
\* open(path, "wb").write(content): creates or truncates
WriteFile(d, name, content) ==
  [ n \in DOMAIN d \cup {name} |-> IF n = name THEN content ELSE d[n] ]

\* download_svg writing the body before it looks at the status
download_svg_writes_any_status(n, d, resp) ==
  IF resp.kind \in {"ok", "status"}
    THEN [success |-> resp.kind = "ok", written |-> {OutputName(n)},
          dir |-> WriteFile(d, OutputName(n), resp.body)]
    ELSE [success |-> FALSE, written |-> {}, dir |-> d]

\* download_svg(icon_id, output_dir) on the CDN's response: its return value,
\* the paths it wrote and the directory it leaves
download_svg(n, d, resp) ==
  IF resp.kind = "ok"
    THEN [success |-> TRUE, written |-> {OutputName(n)},
          dir |-> WriteFile(d, OutputName(n), resp.body)]
    ELSE [success |-> FALSE, written |-> {}, dir |-> d]

\* main, up to the loop
FetcherStart ==
  /\ pc = "idle"
  /\ script' = "fetcher"
  /\ pc' = "fetch"
  /\ dirExists' = TRUE
  /\ icon_id' = FIRST_ID
  /\ fRequested' = <<>>
  /\ fWritten' = {}
  /\ exitCode' = "none"
  /\ NamerFresh
  /\ UNCHANGED <<cdn, dir, refetched, callVars>>

\* one iteration of main's loop
FetcherIteration ==
  /\ pc = "fetch"
  /\ \E resp \in CdnResponses(cdn, icon_id) :
       LET r == download_svg(icon_id, dir, resp) IN
         /\ fRequested' = Append(fRequested, icon_id)
         /\ dir' = r.dir
         /\ fWritten' = fWritten \cup r.written
         /\ refetched' = IF r.written # {} /\ HasRenamedFile(dir, icon_id)
                            THEN refetched \cup {icon_id}
                            ELSE refetched
         /\ IF r.success
              THEN /\ icon_id' = icon_id + 1
                   /\ UNCHANGED <<pc, exitCode>>
              ELSE /\ pc' = "idle"
                   /\ exitCode' = "0"
                   /\ UNCHANGED icon_id
  /\ UNCHANGED <<cdn, dirExists, script, namerVars, callVars>>

\* ------------------------------------------------------------------------
\* rename_connector_svgs.py
\* ------------------------------------------------------------------------
\* the existence test left out
TargetExists_never(d, new_path) == FALSE

\* os.path.exists(new_path)
TargetExists(d, new_path) == new_path \in DOMAIN d

\* a copy in place of the rename: the source stays
RenameFile_copy(d, old, new) ==
  [ n \in DOMAIN d \cup {new} |-> IF n = new THEN d[old] ELSE d[n] ]

\* os.rename(path, new_path)
RenameFile(d, old, new) ==
  [ n \in (DOMAIN d \ {old}) \cup {new} |-> IF n = new THEN d[old] ELSE d[n] ]

\* one pass of identify_institution's loop body on the search response:
\* the slug it returns at once, or none when it falls through to the sleep
IdentifyStep(resp) ==
  LET candidate == pick_name_from_titles(fetch_search_results(resp.page))
  IN  IF candidate.some /\ normalize_name(candidate.val) # <<>>
        THEN Some(normalize_name(candidate.val))
        ELSE None

\* main, up to the loop
NamerStart ==
  /\ pc = "idle"
  /\ script' = "namer"
  /\ svg_files' = IF dirExists
                    THEN SortedByIconId({ n \in DOMAIN dir : MatchesNumericSvg(n) })
                    ELSE <<>>
  /\ IF ~dirExists
       THEN /\ exitCode' = "1"
            /\ pc' = "idle"
       ELSE IF svg_files' = <<>>
         THEN /\ exitCode' = "0"
              /\ pc' = "idle"
         ELSE /\ exitCode' = "none"
              /\ pc' = "file"
  /\ filename' = <<>>
  /\ hints' = <<>>
  /\ queries' = <<>>
  /\ qi' = 1
  /\ issued' = <<>>
  /\ institution' = None
  /\ report' = "none"
  /\ pause' = -1
  /\ gap' = -1
  /\ FetcherFresh
  /\ UNCHANGED <<cdn, dirExists, dir, refetched, callVars>>

\* the head of main's loop: the next file is opened and its hints extracted,
\* identify_institution builds its queries; or the loop ends and main returns
NamerNextFile ==
  /\ pc = "file"
  /\ IF svg_files = <<>>
       THEN /\ pc' = "idle"
            /\ exitCode' = "0"
            /\ UNCHANGED <<svg_files, filename, hints, queries, qi, issued>>
       ELSE /\ filename' = Head(svg_files)
            /\ svg_files' = Tail(svg_files)
            /\ hints' = extract_hints(dir[Head(svg_files)])
            /\ queries' = Queries(IconIdOf(Head(svg_files)), hints')
            /\ qi' = 1
            /\ issued' = <<>>
            /\ pc' = "search"
            /\ UNCHANGED exitCode
  /\ UNCHANGED <<cdn, dirExists, dir, script, refetched, fetcherVars,
                 institution, report, pause, gap, callVars>>

\* one pass of identify_institution's loop: the search request and what
\* follows it up to the next request or the return to main
NamerSearch ==
  /\ pc = "search"
  /\ \E resp \in SearchResponses :
       /\ gap' = pause
       /\ IF resp.kind = "transport_failure"
            THEN \* urlopen raises; nothing catches it
                 /\ pc' = "idle"
                 /\ exitCode' = "exception"
                 /\ pause' = 0
                 /\ issued' = Append(issued, [query |-> queries[qi], slug |-> None])
                 /\ UNCHANGED <<qi, institution, report>>
            ELSE LET found == IdentifyStep(resp) IN
                 /\ issued' = Append(issued, [query |-> queries[qi], slug |-> found])
                 /\ IF found.some
                      THEN /\ institution' = found
                           /\ pc' = "rename"
                           /\ pause' = 0
                           /\ UNCHANGED <<qi, report>>
                      ELSE \* time.sleep(1)
                           /\ pause' = 1
                           /\ IF qi < Len(queries)
                                THEN /\ qi' = qi + 1
                                     /\ UNCHANGED <<pc, institution, report>>
                                ELSE /\ institution' = None
                                     /\ report' = "skipped_no_match"
                                     /\ pc' = "file"
                                     /\ UNCHANGED qi
                 /\ UNCHANGED exitCode
  /\ UNCHANGED <<cdn, dirExists, dir, script, refetched, fetcherVars,
                 svg_files, filename, hints, queries, callVars>>

\* the rest of main's loop body once a slug was found
NamerRename ==
  /\ pc = "rename"
  /\ LET new_name == NewName(IconIdOf(filename), institution.val) IN
       IF TargetExists(dir, new_name)
         THEN /\ report' = "skipped_target_exists"
              /\ UNCHANGED <<dir, pause>>
         ELSE /\ dir' = RenameFile(dir, filename, new_name)
              /\ report' = "renamed"
              /\ pause' = pause + 1
  /\ pc' = "file"
  /\ UNCHANGED <<cdn, dirExists, script, exitCode, refetched, fetcherVars,
                 svg_files, filename, hints, queries, qi, issued, institution,
                 gap, callVars>>

Next ==
  \/ FetcherStart
  \/ FetcherIteration
  \/ NamerStart
  \/ NamerNextFile
  \/ NamerSearch
  \/ NamerRename

Spec == Init /\ [][Next]_vars

\* ------------------------------------------------------------------------
\* normalize_name and pick_name_from_titles called on their own, on every
\* argument of a bounded set
\* ------------------------------------------------------------------------
StringsUpTo(alphabet, n) == UNION { [1..k -> alphabet] : k \in 0..n }

SeqsUpTo(S, n) == UNION { [1..k -> S] : k \in 0..n }

MaxNameLen == 4

NameAlphabet == { "a", "B", "1", "_", " ", "-", "U+00E9", "U+4E2D" }

MaxTitleLen == 3

TitleAlphabet == { "S", "v", "g", " ", "-", "1" }

\* titles that need more code points than MaxTitleLen
Repeat(c, n) == [ i \in 1..n |-> c ]

SampleTitles ==
  { Repeat("a", MaxCandidateLen),
    Repeat("a", MaxCandidateLen + 1),
    <<"a", "b", "c", " ", "-", " ", "S", "v", "g">>,
    <<"a", "b", "c", " ", "|", " ", "d">>,
    <<"a", "b", "c", " ", "U+2014", " ", "d">> }

\* the titles around the title under test
MaxAround == 1

Around ==
  { pp \in SeqsUpTo(SampleTitles, MaxAround) \X SeqsUpTo(SampleTitles, MaxAround) :
      Len(pp[1]) + Len(pp[2]) <= MaxAround }

TitleLists ==
  { pp[1] \o <<t>> \o pp[2] :
      pp \in Around,
      t \in StringsUpTo(TitleAlphabet, MaxTitleLen) \cup SampleTitles }

IdleScripts ==
  /\ cdn = [ n \in CdnIds |-> BodyNoHints ]
  /\ dirExists = FALSE
  /\ dir = << >>
  /\ script = "none"
  /\ exitCode = "none"
  /\ refetched = {}
  /\ FetcherInit
  /\ NamerInit

InitNormalize ==
  /\ IdleScripts
  /\ pc = "normalize"
  /\ raw_name \in StringsUpTo(NameAlphabet, MaxNameLen)
  /\ slug1 = <<>>
  /\ slug2 = <<>>
  /\ titles = <<>>
  /\ picked = None

pipelineVars == <<cdn, dirExists, dir, script, exitCode, refetched,
                  fetcherVars, namerVars>>

NormalizeCall ==
  /\ pc = "normalize"
  /\ slug1' = normalize_name(raw_name)
  /\ pc' = "normalize_again"
  /\ UNCHANGED <<pipelineVars, raw_name, slug2, titles, picked>>

NormalizeAgain ==
  /\ pc = "normalize_again"
  /\ slug2' = normalize_name(slug1)
  /\ pc' = "normalized"
  /\ UNCHANGED <<pipelineVars, raw_name, slug1, titles, picked>>

NextNormalize == NormalizeCall \/ NormalizeAgain

SpecNormalize == InitNormalize /\ [][NextNormalize]_vars

InitPick ==
  /\ IdleScripts
  /\ pc = "pick"
  /\ titles \in TitleLists
  /\ picked = None
  /\ raw_name = <<>>
  /\ slug1 = <<>>
  /\ slug2 = <<>>

PickCall ==
  /\ pc = "pick"
  /\ picked' = pick_name_from_titles(titles)
  /\ pc' = "picked"
  /\ UNCHANGED <<pipelineVars, titles, raw_name, slug1, slug2>>

NextPick == PickCall

SpecPick == InitPick /\ [][NextPick]_vars

\* the namer's runs together with normalize_name on its own
InitSlug == Init \/ InitNormalize

NextSlug == Next \/ NextNormalize

SpecSlug == InitSlug /\ [][NextSlug]_vars

\* ------------------------------------------------------------------------
\* Properties
\* ------------------------------------------------------------------------
NamesOf(n) == { name \in DOMAIN dir : name = OutputName(n) \/ IsRenamedNameOf(name, n) }

IsRenamedName(name) == \E n \in CdnIds : IsRenamedNameOf(name, n)

FetcherEnded == script = "fetcher" /\ pc = "idle"

NamerEnded == script = "namer" /\ pc = "idle"

\* C1: the fetcher requests 201, 202, ... in contiguous increasing order; every
\* request but the last succeeded and wrote its file; when the run has ended,
\* the last request k is the one that failed, the files written by the run are
\* exactly 201.svg .. (k-1).svg, and nothing above k was requested.
C1_FetcherStopsAtFirstFailure ==
  script = "fetcher" =>
    /\ \A i \in DOMAIN fRequested : fRequested[i] = FIRST_ID + i - 1
    /\ pc = "fetch" =>
         /\ icon_id = FIRST_ID + Len(fRequested)
         /\ fWritten = { OutputName(j) : j \in FIRST_ID..(icon_id - 1) }
    /\ pc = "idle" =>
         /\ fRequested # <<>>
         /\ LET k == fRequested[Len(fRequested)] IN
              /\ k = icon_id
              /\ fWritten = { OutputName(j) : j \in FIRST_ID..(k - 1) }
              /\ fWritten \subseteq DOMAIN dir
              /\ \A i \in DOMAIN fRequested : fRequested[i] <= k

C1_Witness ==
  /\ FetcherEnded
  /\ fRequested = <<FIRST_ID, FIRST_ID + 1, FIRST_ID + 2>>
  /\ fWritten = { OutputName(FIRST_ID), OutputName(FIRST_ID + 1) }

\* C2: a namer run ends only when every file of its batch has been reached,
\* whatever happened to the files before.
C2_NoFileAbortsTheBatch == NamerEnded => svg_files = <<>>

\* C3: when the target {identifier}_{slug}.svg exists, the step that follows
\* leaves the directory as it is (source and target present, contents
\* unchanged), reports a skip and goes on to the next file of the batch.
C3_SkipOnCollision ==
  [][ (pc = "rename"
        /\ NewName(IconIdOf(filename), institution.val) \in DOMAIN dir)
      => /\ dir' = dir
         /\ filename \in DOMAIN dir'
         /\ report' = "skipped_target_exists"
         /\ pc' = "file"
         /\ svg_files' = svg_files ]_vars

C3_Witness ==
  /\ pc = "file"
  /\ report = "skipped_target_exists"
  /\ filename \in DOMAIN dir
  /\ NewName(IconIdOf(filename), institution.val) \in DOMAIN dir
  /\ svg_files # <<>>

\* C4: the queries of a file are "pluggy connector {identifier} svg bank" and
\* then, only if a hint exists, "{first hint} logo"; they are issued in that
\* order; no query is issued after one that gave a slug; a slug is returned as
\* soon as a query gives one; none is returned only after all were issued.
C4_ShortCircuitQueryOrder ==
  (script = "namer" /\ filename # <<>>) =>
    /\ Len(queries) = IF hints = <<>> THEN 1 ELSE 2
    /\ queries[1] = QueryPrefix \o IconIdOf(filename) \o QuerySuffix
    /\ hints # <<>> => queries[2] = hints[1] \o LogoSuffix
    /\ Len(issued) <= Len(queries)
    /\ \A i \in DOMAIN issued : issued[i].query = queries[i]
    /\ \A i \in 1..(Len(issued) - 1) : ~issued[i].slug.some
    /\ pc = "search" => \A i \in DOMAIN issued : ~issued[i].slug.some
    /\ pc = "rename" =>
         /\ issued # <<>>
         /\ issued[Len(issued)].slug.some
         /\ institution = issued[Len(issued)].slug
         /\ institution.val # <<>>
    /\ (pc = "file" /\ report = "skipped_no_match") =>
         /\ Len(issued) = Len(queries)
         /\ \A i \in DOMAIN issued : ~issued[i].slug.some

C4_Witness ==
  /\ pc = "rename"
  /\ Len(queries) = 2
  /\ Len(issued) = 1

\* The candidate of a title as the specification words it: the part before
\* the first dash, colon or em dash that has whitespace on both sides, or the
\* whole title.
SpecSeparators == { "-", ":", "U+2014" }

IsSpecSeparatorAt(s, i) ==
  /\ i + 2 <= Len(s)
  /\ IsSpace(s[i])
  /\ s[i + 1] \in SpecSeparators
  /\ IsSpace(s[i + 2])

SpecCandidateOf(title) ==
  IF \E i \in 1..Len(title) : IsSpecSeparatorAt(title, i)
    THEN LET k == CHOOSE i \in 1..Len(title) :
                    /\ IsSpecSeparatorAt(title, i)
                    /\ \A j \in 1..(i - 1) : ~IsSpecSeparatorAt(title, j)
         IN  Strip(SubSeq(title, 1, k - 1), SpaceChars)
    ELSE Strip(title, SpaceChars)

PassesFilters(candidate) ==
  /\ \A phrase \in STOP_PHRASES : ~Contains(Lower(candidate), phrase)
  /\ \A i \in DOMAIN candidate : ~IsDigit(candidate[i])
  /\ Len(candidate) >= 3
  /\ Len(candidate) <= 60

\* C5: select_candidate returns the candidate of the first title, in input
\* order, whose candidate has no stop word, no digit and a length in [3, 60],
\* and none exactly when no title has such a candidate.
C5_FirstSurvivingCandidate ==
  pc = "picked" =>
    IF \E i \in DOMAIN titles : PassesFilters(SpecCandidateOf(titles[i]))
      THEN LET first == CHOOSE i \in DOMAIN titles :
                          /\ PassesFilters(SpecCandidateOf(titles[i]))
                          /\ \A j \in 1..(i - 1) :
                               ~PassesFilters(SpecCandidateOf(titles[j]))
           IN  picked = Some(SpecCandidateOf(titles[first]))
      ELSE picked = None

\* C6: normalize returns the empty string or a string of the shape
\* ^[a-z0-9]+(_[a-z0-9]+)*$, and every file of the directory is named
\* {identifier}.svg or {identifier}_{slug}.svg with a slug of that shape.
C6_SlugCharset ==
  /\ pc \in {"normalize_again", "normalized"} =>
       (slug1 = <<>> \/ MatchesSlugPattern(slug1))
  /\ \A name \in DOMAIN dir :
       \/ \E n \in CdnIds : name = OutputName(n)
       \/ IsRenamedName(name)
  /\ pc = "rename" => MatchesSlugPattern(institution.val)

C6_Witness ==
  /\ pc = "normalized"
  /\ \E i \in DOMAIN raw_name : raw_name[i] \notin LowerAlnum
  /\ \E i \in DOMAIN slug1 : slug1[i] = "_"

\* C7: normalize(normalize(x)) = normalize(x).
C7_NormalizeIdempotent == pc = "normalized" => slug2 = slug1

C7_Witness ==
  /\ pc = "normalized"
  /\ slug1 # raw_name
  /\ slug1 # <<>>
  /\ slug2 = slug1

\* C8: a renamed file stays in the directory with its content and is never
\* taken into a batch; an {identifier}.svg leaves the directory only by
\* becoming a new {identifier}_{slug}.svg with the same content; only the
\* fetcher creates an {identifier}.svg.
C8_AssetLifecycle ==
  [][ /\ \A name \in DOMAIN dir :
           IsRenamedName(name) =>
             /\ name \in DOMAIN dir'
             /\ dir'[name] = dir[name]
             /\ name # filename'
             /\ \A i \in DOMAIN svg_files' : svg_files'[i] # name
      /\ \A n \in CdnIds :
           (OutputName(n) \in DOMAIN dir /\ OutputName(n) \notin DOMAIN dir')
             => \E new \in DOMAIN dir' \ DOMAIN dir :
                  /\ IsRenamedNameOf(new, n)
                  /\ dir'[new] = dir[OutputName(n)]
                  /\ DOMAIN dir' = (DOMAIN dir \ {OutputName(n)}) \cup {new}
      /\ \A n \in CdnIds :
           (OutputName(n) \notin DOMAIN dir /\ OutputName(n) \in DOMAIN dir')
             => pc = "fetch" ]_vars

C8_Witness ==
  /\ pc = "file"
  /\ report = "renamed"
  /\ \E n \in CdnIds :
       /\ OutputName(n) \in DOMAIN dir
       /\ Cardinality(NamesOf(n)) = 3

\* C9 as stated: every identifier has at most one file in the directory.
C9_OneFilePerIdentifier ==
  \A n \in CdnIds : Cardinality(NamesOf(n)) <= 1

\* C9: every identifier has at most one file in the directory, unless the
\* fetcher wrote {identifier}.svg while a renamed file of that identifier
\* was there.
C9_OneFilePerIdentifierUnlessRefetched ==
  \A n \in CdnIds : n \notin refetched => Cardinality(NamesOf(n)) <= 1

C9_Witness ==
  /\ refetched = {}
  /\ script = "fetcher"
  /\ \E n \in CdnIds : HasRenamedFile(dir, n)
  /\ \E n \in CdnIds : OutputName(n) \in DOMAIN dir

\* C10: between two consecutive search requests of a namer run at least one
\* time unit is slept.
C10_PauseBetweenSearches == gap # 0

====
